---- MODULE Spec2Model ----
(***************************************************************************)
(* A model of the NTP time tool server (src/app.py): the tool listing, the *)
(* tool entry point handle_call_tool with its remote query on the default  *)
(* executor and its local-clock fallback, and the retry helper             *)
(* get_ntp_time.  Texts are strings, built as the f-strings of the source  *)
(* build them; instants are epoch seconds plus microseconds, rendered as   *)
(* datetime.isoformat() renders them.                                      *)
(***************************************************************************)
EXTENDS Integers, Sequences, FiniteSets, TLC

(***************************************************************************)
(* Strings.                                                                *)
(***************************************************************************)

\* str.startswith
StartsWith(s, p) == Len(s) >= Len(p) /\ SubSeq(s, 1, Len(p)) = p

\* str.endswith
EndsWith(s, p) == Len(s) >= Len(p) /\ SubSeq(s, Len(s) - Len(p) + 1, Len(s)) = p

\* p in s
Contains(s, p) == \E i \in 1..(Len(s) - Len(p) + 1) : SubSeq(s, i, i + Len(p) - 1) = p

\* text.split('\n')
RECURSIVE Split(_)
Split(s) ==
    LET nl == {i \in 1..Len(s) : SubSeq(s, i, i) = "\n"}
    IN  IF nl = {} THEN <<s>>
        ELSE LET k == CHOOSE i \in nl : \A j \in nl : i <= j
             IN  <<SubSeq(s, 1, k - 1)>> \o Split(SubSeq(s, k + 1, Len(s)))

Digits == {"0", "1", "2", "3", "4", "5", "6", "7", "8", "9"}

\* the regular expression \d{n} against the characters a..b of s
AllDigits(s, a, b) == \A i \in a..b : SubSeq(s, i, i) \in Digits

\* zero-padded decimal of a natural number: the %02d, %04d, %06d of isoformat
RECURSIVE Pad(_, _)
Pad(n, width) ==
    LET d == ToString(n)
    IN  IF Len(d) >= width THEN d ELSE "0" \o Pad(n, width - 1)

(***************************************************************************)
(* Instants and zones.                                                     *)
(***************************************************************************)

SecondsPerDay == 24 * 3600

\* the proleptic Gregorian date of a day number counted from 1970-01-01
CivilFromDays(days) ==
    LET z   == days + 719468
        era == z \div 146097
        doe == z - era * 146097
        yoe == (doe - doe \div 1460 + doe \div 36524 - doe \div 146096) \div 365
        doy == doe - (365 * yoe + yoe \div 4 - yoe \div 100)
        mp  == (5 * doy + 2) \div 153
        d   == doy - (153 * mp + 2) \div 5 + 1
        m   == IF mp < 10 THEN mp + 3 ELSE mp - 9
        y   == yoe + era * 400 + (IF m <= 2 THEN 1 ELSE 0)
    IN  [year |-> y, month |-> m, day |-> d]

\* pytz.all_timezones, as far as the model goes
AllTimezones == {"UTC", "Asia/Tokyo"}

\* the offset from UTC, in seconds, that zone z is at
UtcOffset(z) == IF z = "Asia/Tokyo" THEN 9 * 3600 ELSE 0

\* the offset of the zone of the process, which astimezone() with no argument uses
SystemLocalOffset == -4 * 3600

\* an aware datetime: the instant (epoch seconds, microseconds) and the offset
\* of the zone it is expressed in
DateTime(sec, us, offset) == [sec |-> sec, us |-> us, offset |-> offset]

\* datetime.isoformat() of an aware datetime
IsoFormat(dt) ==
    LET local == dt.sec + dt.offset
        date  == CivilFromDays(local \div SecondsPerDay)
        sod   == local % SecondsPerDay
        abs   == IF dt.offset < 0 THEN -dt.offset ELSE dt.offset
    IN  Pad(date.year, 4) \o "-" \o Pad(date.month, 2) \o "-" \o Pad(date.day, 2)
        \o "T" \o Pad(sod \div 3600, 2) \o ":" \o Pad((sod % 3600) \div 60, 2)
        \o ":" \o Pad(sod % 60, 2)
        \o (IF dt.us = 0 THEN "" ELSE "." \o Pad(dt.us, 6))
        \o (IF dt.offset < 0 THEN "-" ELSE "+")
        \o Pad(abs \div 3600, 2) \o ":" \o Pad((abs % 3600) \div 60, 2)

(***************************************************************************)
(* The values the model draws its inputs from.                             *)
(***************************************************************************)

\* Python's None and a present value, for os.getenv and for tz
None == <<>>
Some(v) == <<v>>

\* values NTP_SERVER is set to
Hosts == {"time.google.com"}

\* values TZ is set to: two recognised zones, the empty string, an unknown name
TZValues == {"UTC", "Asia/Tokyo", "", "NotAZone"}

\* names the tool entry point is called with
ToolNames == {"get_current_time", "get_time"}

\* instants the time authority answers with and the local clock shows
Instants == {[sec |-> 1753401600 + 14 * 3600 + 30 * 60 + 25, us |-> 0],
             [sec |-> 1753401600 + 23 * 3600 + 59 * 60 + 59, us |-> 900000]}

\* a tx_time before the epoch, 1969-12-31T23:59:59Z, which a server whose
\* clock is not set can answer with
PreEpoch == [sec |-> 0 - 1, us |-> 0]

\* what one c.request(host) comes to: a response with its tx_time, or an exception
RequestOutcomes(host) ==
    {[ok |-> TRUE, tx_time |-> Some(t), err |-> ""] : t \in Instants \cup {PreEpoch}}
    \cup {[ok |-> FALSE, tx_time |-> None, err |-> "No response received from " \o host \o "."]}

\* what one read of the local clock comes to: an instant, or an exception
ClockOutcomes ==
    {[ok |-> TRUE, now |-> Some(t), err |-> ""] : t \in Instants}
    \cup {[ok |-> FALSE, now |-> None, err |-> "[Errno 22] Invalid argument"]}

(***************************************************************************)
(* The state.                                                              *)
(***************************************************************************)

VARIABLES
    env,     \* os.environ, restricted to NTP_SERVER and TZ
    calls,   \* the invocations of handle_call_tool, one per slot
    helper,  \* the invocation of get_ntp_time
    listed   \* what handle_list_tools returned last, None before its first call

vars == <<env, calls, helper, listed>>

\* the slots invocations of handle_call_tool run in
CallIds == {"c1", "c2"}

\* a slot no invocation runs in
IdleCall ==
    [pc |-> "idle", name |-> "", ntp_server |-> "", tz_name |-> None, tz |-> None,
     fut |-> None, clock |-> None, content |-> <<>>, exc |-> "",
     netCalls |-> 0, clockReads |-> 0, source |-> "none", queried |-> <<>>,
     client |-> None, conv |-> None]

\* get_ntp_time when nobody has called it
IdleHelper ==
    [pc |-> "idle", ntp_server |-> "", attempt_number |-> 0, waits |-> <<>>,
     response |-> None, requests |-> 0]

Init ==
    /\ env = [NTP_SERVER |-> None, TZ |-> None]
    /\ calls = [i \in CallIds |-> IdleCall]
    /\ helper = IdleHelper
    /\ listed = None

(***************************************************************************)
(* The environment.                                                        *)
(***************************************************************************)

\* os.getenv(key): the value, or None when the variable is not set
Getenv(e, key) == e[key]

\* os.getenv(key, default)
GetenvDefault(e, key, default) == IF e[key] = None THEN default ELSE e[key][1]

\* os.environ[key] = value
SetEnv(key, value) ==
    /\ env' = [env EXCEPT ![key] = Some(value)]
    /\ UNCHANGED <<calls, helper, listed>>

\* del os.environ[key]
DelEnv(key) ==
    /\ env[key] # None
    /\ env' = [env EXCEPT ![key] = None]
    /\ UNCHANGED <<calls, helper, listed>>

(***************************************************************************)
(* handle_call_tool.                                                       *)
(***************************************************************************)

\* UnknownToolError with a fault: the message without the name
UnknownToolErrorNoName(name) == "Unknown tool"

\* the message of the ValueError an unknown tool name raises
UnknownToolError(name) == "Unknown tool: " \o name

\* the host queried when NTP_SERVER is not set
DefaultNtpServer == "pool.ntp.org"

\* Truthy with a fault: a TZ that is set counts, the empty string too
TruthyWhenSet(opt) == opt # None

\* the truth value of an optional string: None and "" are false
Truthy(opt) == opt # None /\ opt[1] # ""

\* PytzKnown with a fault: a lookup that takes any name for a zone
PytzKnownAny(zone) == TRUE

\* pytz.timezone(zone) returns a zone (TRUE) or raises UnknownTimeZoneError (FALSE)
PytzKnown(zone) == zone \in AllTimezones

\* types.TextContent(type="text", text=text)
TextContent(text) == [type |-> "text", text |-> text]

\* Reply with a fault: a list of two items, a status and the text
ReplyWithStatus(text) == <<TextContent("ok"), TextContent(text)>>

\* the list the handler returns: one text item
Reply(text) == <<TextContent(text)>>

\* the text returned for a TZ that pytz does not know
UnknownZoneText(tz_name) == "Error: Unknown time zone: " \o tz_name

\* AsTimezone with a fault: the zone is looked up in the environment when the
\* instant is rendered, not taken from the argument
AsTimezoneOfEnv(instant, tz) ==
    DateTime(instant.sec, instant.us,
             IF Truthy(Getenv(env, "TZ")) /\ PytzKnown(Getenv(env, "TZ")[1])
             THEN UtcOffset(Getenv(env, "TZ")[1]) ELSE SystemLocalOffset)

\* utc_dt.astimezone(tz) when tz is set, utc_dt.astimezone() when it is None
AsTimezone(instant, tz) ==
    DateTime(instant.sec, instant.us,
             IF tz # None THEN UtcOffset(tz[1]) ELSE SystemLocalOffset)

\* RemoteText with a fault: the remote text with the tag of the fallback
RemoteTextTagged(local_dt) == "Current time (local fallback): " \o IsoFormat(local_dt)

\* the text of a time the time authority gave
RemoteText(local_dt) == "Current time: " \o IsoFormat(local_dt)

\* the text of a time read from the local clock
FallbackText(local_dt) == "Current time (local fallback): " \o IsoFormat(local_dt)

\* FailedText with a fault: the error text without its cause
FailedTextNoCause(cause) == "Error: Failed to get time"

\* the text returned when the local clock could not be read either
FailedText(cause) == "Error: Failed to get time - " \o cause

\* what datetime.fromtimestamp(tx_time, timezone.utc) and astimezone come to:
\* the datetime, or, for a tx_time before the epoch on a platform whose C
\* library rejects it, an OSError
ConversionOutcomes(instant) ==
    {[ok |-> TRUE, err |-> ""]}
    \cup (IF instant.sec < 0
          THEN {[ok |-> FALSE, err |-> "[Errno 22] Invalid argument"]}
          ELSE {})

\* RemotePath with a fault: the conversion stands outside the try block, and
\* its failure is reported as an error
RemotePathConversionError(tz, response, conv) ==
    IF ~response.ok
    THEN [raised |-> TRUE, result |-> response.err]
    ELSE IF ~conv[1].ok
    THEN [raised |-> FALSE, result |-> FailedText(conv[1].err)]
    ELSE [raised |-> FALSE, result |-> RemoteText(AsTimezone(response.tx_time[1], tz))]

\* RemotePath with a fault: the answer of the server is discarded and the
\* handler always goes to the fallback
RemotePathDiscarded(tz, response, conv) ==
    [raised |-> TRUE, result |-> "discarded"]

\* the body of the outer try once the executor's future is done: the text, or
\* the exception, of the request or of the conversion, that sends the handler
\* to the fallback
RemotePath(tz, response, conv) ==
    IF ~response.ok
    THEN [raised |-> TRUE, result |-> response.err]
    ELSE IF ~conv[1].ok
    THEN [raised |-> TRUE, result |-> conv[1].err]
    ELSE [raised |-> FALSE, result |-> RemoteText(AsTimezone(response.tx_time[1], tz))]

\* FallbackPath with a fault: the outer except without its inner try, so that a
\* failure of the clock read leaves the handler
FallbackPathNoInnerTry(tz, clock) ==
    IF clock.ok
    THEN [raised |-> FALSE, source |-> "local",
          result |-> FallbackText(AsTimezone(clock.now[1], tz))]
    ELSE [raised |-> TRUE, source |-> "none", result |-> clock.err]

\* FallbackPath with a fault: the local clock rendered in the zone of the
\* process whatever TZ is
FallbackPathSystemZone(tz, clock) ==
    IF clock.ok
    THEN [raised |-> FALSE, source |-> "local",
          result |-> FallbackText(AsTimezone(clock.now[1], None))]
    ELSE [raised |-> FALSE, source |-> "none", result |-> FailedText(clock.err)]

\* FallbackPath with a fault: the outer except gives the error text up front,
\* whatever the local clock would have shown
FallbackPathGivesUp(tz, clock) ==
    [raised |-> FALSE, source |-> "none",
     result |-> FailedText(IF clock.ok THEN "remote failed" ELSE clock.err)]

\* the body of the outer except: the local clock, or the error text
FallbackPath(tz, clock) ==
    IF clock.ok
    THEN [raised |-> FALSE, source |-> "local",
          result |-> FallbackText(AsTimezone(clock.now[1], tz))]
    ELSE [raised |-> FALSE, source |-> "none", result |-> FailedText(clock.err)]

\* RunsInExecutor with a fault: c.request called on the event loop's own thread
RunsOnLoopThread == FALSE

\* run_in_executor(None, c.request, ntp_server): the request runs on a worker
\* thread of the default executor, not on the thread of the event loop
RunsInExecutor == TRUE

\* the thread of the event loop is held by a request in progress, so that no
\* handler can take a step
LoopBlocked == ~RunsInExecutor /\ \E i \in CallIds : calls[i].pc = "awaiting"

\* NewClient with a fault: one client made at import and used by every invocation
SharedClient(i) == "module"

\* c = ntplib.NTPClient(): an object made by the invocation, known by the
\* invocation that made it
NewClient(i) == i

\* handle_call_tool(name, arguments) up to its await: the name check, the
\* configuration, the zone lookup, and the query handed to the executor
Invoke(i, name) ==
    /\ calls[i].pc = "idle"
    /\ ~LoopBlocked
    /\ LET ntp_server == GetenvDefault(env, "NTP_SERVER", DefaultNtpServer)
           tz_name    == Getenv(env, "TZ")
           c0 == [IdleCall EXCEPT !.name = name]
           c1 == [c0 EXCEPT !.ntp_server = ntp_server, !.tz_name = tz_name]
       IN  calls' = [calls EXCEPT ![i] =
               IF name # "get_current_time"
               THEN [c0 EXCEPT !.pc = "raised", !.exc = UnknownToolError(name)]
               ELSE IF Truthy(tz_name)
               THEN IF PytzKnown(tz_name[1])
                    THEN [c1 EXCEPT !.tz = tz_name, !.client = Some(NewClient(i)),
                                    !.pc = "awaiting"]
                    ELSE [c1 EXCEPT !.pc = "returned",
                              !.content = Reply(UnknownZoneText(tz_name[1]))]
               ELSE [c1 EXCEPT !.tz = None, !.client = Some(NewClient(i)),
                               !.pc = "awaiting"]]
    /\ UNCHANGED <<env, helper, listed>>

\* RequestHost with a fault: the default host, whatever NTP_SERVER was
RequestHostDefault(c) == DefaultNtpServer

\* RequestHost with a fault: NTP_SERVER is read again when the request is made
RequestHostOfEnv(c) == GetenvDefault(env, "NTP_SERVER", DefaultNtpServer)

\* the host c.request is given: the ntp_server read at the invocation's entry
RequestHost(c) == c.ntp_server

\* Exchange with a fault: the request is sent twice and the second response kept
ExchangeTwice(i) ==
    /\ calls[i].pc = "awaiting"
    /\ \E out \in RequestOutcomes(RequestHost(calls[i])) :
           calls' = [calls EXCEPT ![i].fut = Some(out),
                                  ![i].queried = @ \o <<RequestHost(calls[i]),
                                                        RequestHost(calls[i])>>,
                                  ![i].netCalls = @ + 2,
                                  ![i].pc = "ready"]
    /\ UNCHANGED <<env, helper, listed>>

\* the executor's worker thread runs c.request(ntp_server) and completes the future
Exchange(i) ==
    /\ calls[i].pc = "awaiting"
    /\ \E out \in RequestOutcomes(RequestHost(calls[i])) :
           calls' = [calls EXCEPT ![i].fut = Some(out),
                                  ![i].queried = Append(@, RequestHost(calls[i])),
                                  ![i].netCalls = @ + 1,
                                  ![i].pc = "ready"]
    /\ UNCHANGED <<env, helper, listed>>

\* Resume with a fault: a failed request is issued again, up to a fourth time,
\* before the handler falls back to the system clock
ResumeRetrying(i) ==
    /\ calls[i].pc = "ready"
    /\ ~LoopBlocked
    /\ \E conv \in (IF calls[i].fut[1].ok
                    THEN {Some(o) : o \in ConversionOutcomes(calls[i].fut[1].tx_time[1])}
                    ELSE {None}) :
       LET c == calls[i]
           remote == RemotePath(c.tz, c.fut[1], conv)
       IN  IF ~remote.raised
           THEN calls' = [calls EXCEPT ![i].conv = conv,
                                       ![i].content = Reply(remote.result),
                                       ![i].source = "remote",
                                       ![i].pc = "returned"]
           ELSE IF c.netCalls <= 3
           THEN calls' = [calls EXCEPT ![i].fut = <<>>, ![i].pc = "awaiting"]
           ELSE \E clock \in ClockOutcomes :
                  LET fb == FallbackPath(c.tz, clock)
                  IN  calls' = [calls EXCEPT
                          ![i].conv = conv,
                          ![i].clock = Some(clock),
                          ![i].clockReads = @ + 1,
                          ![i].source = fb.source,
                          ![i].content = IF fb.raised THEN <<>> ELSE Reply(fb.result),
                          ![i].exc = IF fb.raised THEN fb.result ELSE "",
                          ![i].pc = IF fb.raised THEN "raised" ELSE "returned"]
    /\ UNCHANGED <<env, helper, listed>>

\* handle_call_tool from its await to its return; an exception that no except
\* clause catches leaves the handler
Resume(i) ==
    /\ calls[i].pc = "ready"
    /\ ~LoopBlocked
    /\ \E conv \in (IF calls[i].fut[1].ok
                    THEN {Some(o) : o \in ConversionOutcomes(calls[i].fut[1].tx_time[1])}
                    ELSE {None}) :
       LET c == calls[i]
           remote == RemotePath(c.tz, c.fut[1], conv)
       IN  IF ~remote.raised
           THEN calls' = [calls EXCEPT ![i].conv = conv,
                                       ![i].content = Reply(remote.result),
                                       ![i].source = "remote",
                                       ![i].pc = "returned"]
           ELSE \E clock \in ClockOutcomes :
                  LET fb == FallbackPath(c.tz, clock)
                  IN  calls' = [calls EXCEPT
                          ![i].conv = conv,
                          ![i].clock = Some(clock),
                          ![i].clockReads = @ + 1,
                          ![i].source = fb.source,
                          ![i].content = IF fb.raised THEN <<>> ELSE Reply(fb.result),
                          ![i].exc = IF fb.raised THEN fb.result ELSE "",
                          ![i].pc = IF fb.raised THEN "raised" ELSE "returned"]
    /\ UNCHANGED <<env, helper, listed>>

\* the caller has its result, or its exception, and the invocation's frame is gone
Collect(i) ==
    /\ calls[i].pc \in {"returned", "raised"}
    /\ calls' = [calls EXCEPT ![i] = IdleCall]
    /\ UNCHANGED <<env, helper, listed>>

(***************************************************************************)
(* get_ntp_time and its retry decorator.                                   *)
(***************************************************************************)

\* stop_after_attempt(3)
StopAfterAttempt == 3

\* wait_exponential(multiplier=1, min=1, max=10)
WaitMultiplier == 1
WaitMin == 1
WaitMax == 10

Min(a, b) == IF a <= b THEN a ELSE b
Max(a, b) == IF a >= b THEN a ELSE b

\* WaitExponential with a fault: multiplier * 2 ** attempt_number, the first
\* wait being 2
WaitExponentialFromTwo(attempt_number) ==
    Max(Max(0, WaitMin), Min(WaitMultiplier * 2 ^ attempt_number, WaitMax))

\* the wait after the failure of attempt attempt_number:
\* multiplier * 2 ** (attempt_number - 1), kept between min and max
WaitExponential(attempt_number) ==
    Max(Max(0, WaitMin), Min(WaitMultiplier * 2 ^ (attempt_number - 1), WaitMax))

\* hosts get_ntp_time is called with
HelperHosts == Hosts \cup {DefaultNtpServer}

\* get_ntp_time(ntp_server) is called: the first attempt is about to start
GetNtpTime(host) ==
    /\ helper.pc = "idle"
    /\ helper' = [IdleHelper EXCEPT !.pc = "attempt", !.ntp_server = host,
                                    !.attempt_number = 1]
    /\ UNCHANGED <<env, calls, listed>>

\* HelperAttempt with a fault: the decorator gives up one attempt too late
HelperAttemptFourth ==
    /\ helper.pc = "attempt"
    /\ \E out \in RequestOutcomes(helper.ntp_server) :
           helper' =
               IF out.ok
               THEN [helper EXCEPT !.requests = @ + 1, !.response = Some(out),
                                   !.pc = "returned"]
               ELSE IF helper.attempt_number >= StopAfterAttempt + 1
               THEN [helper EXCEPT !.requests = @ + 1, !.pc = "raised"]
               ELSE [helper EXCEPT !.requests = @ + 1, !.pc = "sleeping",
                                   !.waits = Append(@, WaitExponential(helper.attempt_number))]
    /\ UNCHANGED <<env, calls, listed>>

\* HelperAttempt with a fault: after a failure the next attempt starts at once,
\* with no wait in between
HelperAttemptNoWait ==
    /\ helper.pc = "attempt"
    /\ \E out \in RequestOutcomes(helper.ntp_server) :
           helper' =
               IF out.ok
               THEN [helper EXCEPT !.requests = @ + 1, !.response = Some(out),
                                   !.pc = "returned"]
               ELSE IF helper.attempt_number >= StopAfterAttempt
               THEN [helper EXCEPT !.requests = @ + 1, !.pc = "raised"]
               ELSE [helper EXCEPT !.requests = @ + 1, !.attempt_number = @ + 1]
    /\ UNCHANGED <<env, calls, listed>>

\* one attempt: c.request(ntp_server) returns, and so does get_ntp_time, or it
\* raises, and the decorator stops (RetryError) or sleeps before the next attempt
HelperAttempt ==
    /\ helper.pc = "attempt"
    /\ \E out \in RequestOutcomes(helper.ntp_server) :
           helper' =
               IF out.ok
               THEN [helper EXCEPT !.requests = @ + 1, !.response = Some(out),
                                   !.pc = "returned"]
               ELSE IF helper.attempt_number >= StopAfterAttempt
               THEN [helper EXCEPT !.requests = @ + 1, !.pc = "raised"]
               ELSE [helper EXCEPT !.requests = @ + 1, !.pc = "sleeping",
                                   !.waits = Append(@, WaitExponential(helper.attempt_number))]
    /\ UNCHANGED <<env, calls, listed>>

\* the sleep is over: the next attempt is about to start
HelperWake ==
    /\ helper.pc = "sleeping"
    /\ helper' = [helper EXCEPT !.attempt_number = @ + 1, !.pc = "attempt"]
    /\ UNCHANGED <<env, calls, listed>>

\* the caller of get_ntp_time has its response, or its RetryError
HelperCollect ==
    /\ helper.pc \in {"returned", "raised"}
    /\ helper' = IdleHelper
    /\ UNCHANGED <<env, calls, listed>>

(***************************************************************************)
(* handle_list_tools.                                                      *)
(***************************************************************************)

\* ListTools with a fault: the tool takes the zone as a required argument
ListToolsWithArgument ==
    << [name |-> "get_current_time",
        description |-> "Get the current time from an NTP server specified by NTP_SERVER env var (default 'pool.ntp.org'), in time zone specified by TZ env var (default system local)",
        inputSchema |-> [type |-> "object", properties |-> {"timezone"},
                         required |-> <<"timezone">>]] >>

\* the list handle_list_tools returns: one types.Tool, whose inputSchema has
\* no properties ({}) and no required arguments ([])
ListTools ==
    << [name |-> "get_current_time",
        description |-> "Get the current time from an NTP server specified by NTP_SERVER env var (default 'pool.ntp.org'), in time zone specified by TZ env var (default system local)",
        inputSchema |-> [type |-> "object", properties |-> {},
                         required |-> <<>>]] >>

\* handle_list_tools(): a handler on the event loop, which reads no state
HandleListTools ==
    /\ ~LoopBlocked
    /\ listed' = Some(ListTools)
    /\ UNCHANGED <<env, calls, helper>>

(***************************************************************************)
(* The specifications.                                                     *)
(***************************************************************************)

EnvStep ==
    \/ \E v \in Hosts : SetEnv("NTP_SERVER", v)
    \/ \E v \in TZValues : SetEnv("TZ", v)
    \/ \E k \in {"NTP_SERVER", "TZ"} : DelEnv(k)

\* invocations of the tool entry point, which may overlap
Next ==
    \/ EnvStep
    \/ \E i \in CallIds, name \in ToolNames : Invoke(i, name)
    \/ \E i \in CallIds : Exchange(i)
    \/ \E i \in CallIds : Resume(i)
    \/ \E i \in CallIds : Collect(i)

Spec == Init /\ [][Next]_vars

\* one invocation of the tool entry point at a time, and the retry helper
NextRetry ==
    \/ EnvStep
    \/ \E name \in ToolNames : Invoke("c1", name)
    \/ Exchange("c1")
    \/ Resume("c1")
    \/ Collect("c1")
    \/ \E host \in HelperHosts : GetNtpTime(host)
    \/ HelperAttempt
    \/ HelperWake
    \/ HelperCollect
    \/ HandleListTools

SpecRetry == Init /\ [][NextRetry]_vars

\* one caller on the event loop's thread: get_ntp_time is a plain function
\* that holds its caller until it returns or raises, so it is called, and it
\* runs, between invocations of the tool entry point
NextLive ==
    \/ EnvStep
    \/ helper.pc = "idle" /\ \E name \in ToolNames : Invoke("c1", name)
    \/ Exchange("c1")
    \/ Resume("c1")
    \/ Collect("c1")
    \/ calls["c1"].pc = "idle" /\ \E host \in HelperHosts : GetNtpTime(host)
    \/ HelperAttempt
    \/ HelperWake
    \/ HelperCollect

\* a request that was started completes or times out, the event loop resumes a
\* handler whose future is done, and the decorator's sleep ends
SpecLive ==
    /\ Init /\ [][NextLive]_vars
    /\ WF_vars(Exchange("c1")) /\ WF_vars(Resume("c1"))
    /\ WF_vars(HelperAttempt) /\ WF_vars(HelperWake)

(***************************************************************************)
(* The output format the tests validate.                                   *)
(***************************************************************************)

\* ^Date:\d{4}-\d{2}-\d{2}$
DateLineOk(l) ==
    /\ Len(l) = 15
    /\ SubSeq(l, 1, 5) = "Date:"
    /\ AllDigits(l, 6, 9) /\ SubSeq(l, 10, 10) = "-"
    /\ AllDigits(l, 11, 12) /\ SubSeq(l, 13, 13) = "-"
    /\ AllDigits(l, 14, 15)

\* ^Time:\d{2}:\d{2}:\d{2}$
TimeLineOk(l) ==
    /\ Len(l) = 13
    /\ SubSeq(l, 1, 5) = "Time:"
    /\ AllDigits(l, 6, 7) /\ SubSeq(l, 8, 8) = ":"
    /\ AllDigits(l, 9, 10) /\ SubSeq(l, 11, 11) = ":"
    /\ AllDigits(l, 12, 13)

\* ^Timezone:.+$
TimezoneLineOk(l) == Len(l) > 9 /\ SubSeq(l, 1, 9) = "Timezone:"

\* the zone label of a text: what follows Timezone: on its third line, or None
TimezoneField(text) ==
    LET lines == Split(text)
    IN  IF Len(lines) >= 3 /\ StartsWith(lines[3], "Timezone:")
        THEN Some(SubSeq(lines[3], 10, Len(lines[3])))
        ELSE None

(***************************************************************************)
(* What the claims speak of.                                               *)
(***************************************************************************)

\* the text of the one item a returned invocation handed back
TextOf(c) == c.content[1].text

\* the invocation ran get_current_time and has returned
Returned(c) == c.name = "get_current_time" /\ c.pc = "returned"

\* the invocation's TZ was set to a name that is no zone
ZoneUnknown(c) == Truthy(c.tz_name) /\ c.tz_name[1] \notin AllTimezones

\* the invocation's remote exchange was made and failed
RemoteFailed(c) == c.fut # None /\ ~c.fut[1].ok

\* the invocation's remote exchange was made and answered
RemoteAnswered(c) == c.fut # None /\ c.fut[1].ok

\* the invocation read the local clock and the read failed
ClockFailed(c) == c.clock # None /\ ~c.clock[1].ok

\* the invocation read the local clock and got an instant
ClockRead(c) == c.clock # None /\ c.clock[1].ok

\* the request was answered and the conversion of its tx_time failed
ConversionFailed(c) == c.conv # None /\ ~c.conv[1].ok

IsErrorText(text) == StartsWith(text, "Error:")

(***************************************************************************)
(* The claims.                                                             *)
(***************************************************************************)

\* C1: an invocation of get_current_time whose TZ names no recognised zone has
\* returned the single text "Error: Unknown time zone: <name>", has made no
\* network exchange, and its text carries no fallback tag.
C1_UnknownZoneShortCircuits ==
    \A i \in CallIds :
        LET c == calls[i]
        IN  (c.name = "get_current_time" /\ ZoneUnknown(c)) =>
                /\ c.pc = "returned"
                /\ c.content = <<[type |-> "text",
                                  text |-> "Error: Unknown time zone: " \o c.tz_name[1]]>>
                /\ c.netCalls = 0
                /\ c.fut = None
                /\ ~Contains(TextOf(c), "(local fallback)")

C1_Witness ==
    /\ Returned(calls["c1"])
    /\ calls["c1"].tz_name = Some("NotAZone")
    /\ TextOf(calls["c1"]) = "Error: Unknown time zone: NotAZone"
    /\ calls["c1"].netCalls = 0

\* C2: when the remote exchange failed and the local clock was read, the
\* returned text has a Timezone field that ends with " (local fallback)", and
\* it is no Error: text.
C2_FallbackZoneLabelTagged ==
    \A i \in CallIds :
        LET c == calls[i]
        IN  (Returned(c) /\ RemoteFailed(c) /\ ClockRead(c)) =>
                /\ TimezoneField(TextOf(c)) # None
                /\ EndsWith(TimezoneField(TextOf(c))[1], " (local fallback)")
                /\ ~IsErrorText(TextOf(c))

\* C3: every returned text that is no Error: text is exactly the three lines
\* Date:YYYY-MM-DD, Time:HH:MM:SS and Timezone:<label>, in this order.
C3_ThreeLineFormat ==
    \A i \in CallIds :
        LET c == calls[i]
            lines == Split(TextOf(c))
        IN  (Returned(c) /\ ~IsErrorText(TextOf(c))) =>
                /\ Len(lines) = 3
                /\ DateLineOk(lines[1])
                /\ TimeLineOk(lines[2])
                /\ TimezoneLineOk(lines[3])

\* C4: an invocation that took the fallback path because every remote attempt
\* failed has invoked the network layer exactly 3 times, and no invocation
\* invokes it more than 3 times.
C4_ThreeRequestsBeforeFallback ==
    \A i \in CallIds :
        LET c == calls[i]
        IN  /\ c.netCalls <= 3
            /\ (Returned(c) /\ RemoteFailed(c)) => c.netCalls = 3

\* C5: an invocation of get_current_time never raises: whatever the zone
\* setting, the outcome of the exchange and the outcome of the clock read, it is
\* never left by an exception, and what it returns is a rendered time or an
\* Error: text.
C5_NeverRaises ==
    \A i \in CallIds :
        LET c == calls[i]
        IN  c.name = "get_current_time" =>
                /\ c.pc # "raised"
                /\ c.exc = ""
                /\ c.pc = "returned" =>
                       \/ StartsWith(TextOf(c), "Current time")
                       \/ IsErrorText(TextOf(c))

C5_Witness ==
    /\ Returned(calls["c1"]) /\ ClockFailed(calls["c1"])
    /\ Returned(calls["c2"]) /\ ZoneUnknown(calls["c2"])

\* C6, as stated: every invocation of the tool entry point that is over has
\* handed back exactly one item of type text, and none ended in a fault.
C6_EveryInvocationOneTextItem ==
    \A i \in CallIds :
        LET c == calls[i]
        IN  c.pc \in {"returned", "raised"} =>
                /\ c.pc = "returned"
                /\ Len(c.content) = 1
                /\ c.content[1].type = "text"

\* C6, as amended: every invocation of the tool entry point with the name
\* get_current_time that is over has handed back exactly one item of type
\* text, on each of its paths, and did not end in a fault.
C6_GetCurrentTimeOneTextItem ==
    \A i \in CallIds :
        LET c == calls[i]
        IN  (c.name = "get_current_time" /\ c.pc \in {"returned", "raised"}) =>
                /\ c.pc = "returned"
                /\ Len(c.content) = 1
                /\ c.content[1].type = "text"

C6_Witness ==
    /\ Returned(calls["c1"]) /\ calls["c1"].source = "local"
    /\ Len(calls["c1"].content) = 1
    /\ Returned(calls["c2"]) /\ calls["c2"].source = "remote"
    /\ Len(calls["c2"].content) = 1

\* C7: the waits between the attempts of one call of get_ntp_time: the first
\* is 1, each later one is the double of the one before, cut at 10, so never
\* less than the one before, and none exceeds 10.
C7_ExponentialBackoff ==
    LET w == helper.waits
    IN  /\ Len(w) >= 1 => w[1] = 1
        /\ \A k \in 2..Len(w) :
               /\ w[k] >= w[k - 1]
               /\ w[k] = (IF 2 * w[k - 1] <= 10 THEN 2 * w[k - 1] ELSE 10)
        /\ \A k \in 1..Len(w) : w[k] <= 10

C7_Witness == helper.waits = <<1, 2>> /\ helper.pc = "raised"

\* C8: when the remote exchange failed and the read of the local clock failed
\* too, the returned text is "Error: Failed to get time - <cause>", and the
\* invocation made that one exchange and that one clock read and no more.
C8_TimeUnavailableIsTerminal ==
    \A i \in CallIds :
        LET c == calls[i]
        IN  (c.name = "get_current_time" /\ RemoteFailed(c) /\ ClockFailed(c)) =>
                /\ c.pc = "returned"
                /\ c.content = <<[type |-> "text",
                                  text |-> "Error: Failed to get time - " \o c.clock[1].err]>>
                /\ c.netCalls = 1
                /\ c.clockReads = 1

C8_Witness ==
    /\ Returned(calls["c1"]) /\ RemoteFailed(calls["c1"]) /\ ClockFailed(calls["c1"])
    /\ TextOf(calls["c1"]) = "Error: Failed to get time - [Errno 22] Invalid argument"

\* C9: for a valid zone Z and a remote exchange that answered, the Timezone
\* field of the returned text is Z.
C9_TimezoneFieldIsZone ==
    \A i \in CallIds :
        LET c == calls[i]
        IN  (Returned(c) /\ RemoteAnswered(c) /\ c.tz # None) =>
                TimezoneField(TextOf(c)) = Some(c.tz[1])

\* C10: a returned text that is no Error: text carries the marker
\* "(local fallback)" exactly when its instant was read from the local clock.
C10_MarkerIffLocal ==
    \A i \in CallIds :
        LET c == calls[i]
        IN  (Returned(c) /\ ~IsErrorText(TextOf(c))) =>
                /\ c.source \in {"remote", "local"}
                /\ c.source = "local" <=> ClockRead(c)
                /\ c.source = "remote" <=> (RemoteAnswered(c) /\ c.clock = None)
                /\ Contains(TextOf(c), "(local fallback)") <=> c.source = "local"

C10_Witness ==
    /\ Returned(calls["c1"]) /\ calls["c1"].source = "local"
    /\ Contains(TextOf(calls["c1"]), "(local fallback)")
    /\ Returned(calls["c2"]) /\ calls["c2"].source = "remote"
    /\ ~Contains(TextOf(calls["c2"]), "(local fallback)")

\* the instant a returned invocation displays: the time authority's tx_time, or
\* what the local clock showed
InstantOf(c) ==
    IF c.source = "remote" THEN c.fut[1].tx_time[1] ELSE c.clock[1].now[1]

\* the offset of the zone TZ asks for: that of the zone it names, or that of
\* the zone of the process when it is not set (or empty)
OffsetAskedFor(tz_name) ==
    IF tz_name # None /\ tz_name[1] # ""
    THEN (IF tz_name[1] = "Asia/Tokyo" THEN 9 * 3600 ELSE 0)
    ELSE -4 * 3600

\* C11: on the remote path and on the fallback path alike, the returned text
\* shows the instant as isoformat renders it in the zone TZ names, or in the
\* zone of the process when TZ is not set; two invocations with the same TZ and
\* the same instant, one on each path, show the same date, time and offset.
C11_ZoneFromTZOnBothPaths ==
    /\ \A i \in CallIds :
           LET c == calls[i]
           IN  (Returned(c) /\ ~IsErrorText(TextOf(c))) =>
                   EndsWith(TextOf(c),
                            ": " \o IsoFormat([sec |-> InstantOf(c).sec,
                                               us |-> InstantOf(c).us,
                                               offset |-> OffsetAskedFor(c.tz_name)]))
    /\ \A i, j \in CallIds :
           LET c == calls[i]
               d == calls[j]
               lc == Len(TextOf(c))
               ld == Len(TextOf(d))
           IN  (/\ Returned(c) /\ c.source = "remote"
                /\ Returned(d) /\ d.source = "local"
                /\ c.tz_name = d.tz_name /\ InstantOf(c) = InstantOf(d)) =>
                   SubSeq(TextOf(c), Len("Current time: ") + 1, lc)
                     = SubSeq(TextOf(d), Len("Current time (local fallback): ") + 1, ld)

C11_Witness ==
    /\ Returned(calls["c1"]) /\ calls["c1"].source = "remote"
    /\ Returned(calls["c2"]) /\ calls["c2"].source = "local"
    /\ calls["c1"].tz_name = Some("Asia/Tokyo") /\ calls["c2"].tz_name = Some("Asia/Tokyo")
    /\ InstantOf(calls["c1"]) = InstantOf(calls["c2"])
    /\ TextOf(calls["c1"]) = "Current time: 2025-07-26T08:59:59.900000+09:00"
    /\ TextOf(calls["c2"]) = "Current time (local fallback): 2025-07-26T08:59:59.900000+09:00"

\* the same with TZ not set: both paths render in the zone of the process
C11_WitnessUnset ==
    /\ Returned(calls["c1"]) /\ calls["c1"].source = "remote"
    /\ Returned(calls["c2"]) /\ calls["c2"].source = "local"
    /\ calls["c1"].tz_name = None /\ calls["c2"].tz_name = None
    /\ TextOf(calls["c1"]) = "Current time: 2025-07-25T10:30:25-04:00"
    /\ TextOf(calls["c2"]) = "Current time (local fallback): 2025-07-25T10:30:25-04:00"

\* C12: every returned text that is no Error: text has a Timezone field with a
\* zone label in it, also when TZ is not set.
C12_ZoneLabelAlways ==
    \A i \in CallIds :
        LET c == calls[i]
        IN  (Returned(c) /\ ~IsErrorText(TextOf(c))) =>
                /\ TimezoneField(TextOf(c)) # None
                /\ TimezoneField(TextOf(c))[1] # ""

\* the host the environment e gives: NTP_SERVER, or pool.ntp.org when not set
HostOfEnv(e) == IF e.NTP_SERVER = <<>> THEN "pool.ntp.org" ELSE e.NTP_SERVER[1]

\* C13: the configuration is read at each invocation: a step that starts an
\* invocation of get_current_time takes its host and its TZ from the
\* environment as it is at that step, whatever earlier invocations saw; the
\* host then queried is that host, and the text is rendered in that TZ's zone.
C13_ConfigurationReadAtEntry ==
    [][\A i \in CallIds :
         /\ (calls[i].pc = "idle" /\ calls'[i].pc # "idle"
               /\ calls'[i].name = "get_current_time") =>
                /\ calls'[i].ntp_server = HostOfEnv(env)
                /\ calls'[i].tz_name = env.TZ
         /\ (calls[i].pc = "awaiting" /\ calls'[i].pc = "ready") =>
                /\ calls'[i].queried = <<calls[i].ntp_server>>
                /\ calls'[i].ntp_server = calls[i].ntp_server
         /\ (calls[i].pc = "ready" /\ Returned(calls'[i])
               /\ ~IsErrorText(TextOf(calls'[i]))) =>
                /\ calls'[i].tz_name = calls[i].tz_name
                /\ calls'[i].queried = calls[i].queried
                /\ EndsWith(TextOf(calls'[i]),
                            IsoFormat([sec |-> InstantOf(calls'[i]).sec,
                                       us |-> InstantOf(calls'[i]).us,
                                       offset |-> OffsetAskedFor(calls[i].tz_name)]))
      ]_vars

\* two invocations that ran under two configurations: the one queried
\* time.google.com and rendered in Asia/Tokyo, the other queried the default
\* host and rendered in the zone of the process
C13_Witness ==
    /\ Returned(calls["c1"]) /\ calls["c1"].queried = <<"time.google.com">>
    /\ calls["c1"].tz_name = Some("Asia/Tokyo")
    /\ TextOf(calls["c1"]) = "Current time: 2025-07-25T23:30:25+09:00"
    /\ Returned(calls["c2"]) /\ calls["c2"].queried = <<"pool.ntp.org">>
    /\ calls["c2"].tz_name = None
    /\ TextOf(calls["c2"]) = "Current time: 2025-07-25T10:30:25-04:00"
    /\ env = [NTP_SERVER |-> None, TZ |-> Some("UTC")]

\* C14: an invocation that returned a time the time authority gave has made
\* exactly one network exchange; and no step of an invocation writes the
\* environment or anything outside the invocation's own frame, of which
\* nothing is left once the caller has its result.
C14_OneExchangeNoPersistedState ==
    [][\A i \in CallIds :
         /\ (Returned(calls'[i]) /\ calls'[i].source = "remote") =>
                /\ calls'[i].netCalls = 1
                /\ Len(calls'[i].queried) = 1
         /\ calls'[i] # calls[i] =>
                /\ env' = env
                /\ helper' = helper
                /\ \A j \in CallIds \ {i} : calls'[j] = calls[j]
         /\ (calls[i].pc \in {"returned", "raised"} /\ calls'[i] # calls[i]) =>
                calls'[i] = [pc |-> "idle", name |-> "", ntp_server |-> "",
                             tz_name |-> <<>>, tz |-> <<>>, fut |-> <<>>,
                             clock |-> <<>>, content |-> <<>>, exc |-> "",
                             netCalls |-> 0, clockReads |-> 0, source |-> "none",
                             queried |-> <<>>, client |-> <<>>,
                             conv |-> <<>>]
      ]_vars

C14_Witness ==
    /\ Returned(calls["c1"]) /\ calls["c1"].source = "remote"
    /\ calls["c1"].netCalls = 1
    /\ calls["c2"].pc = "idle" /\ calls["c2"].netCalls = 0
    /\ env.TZ = Some("UTC")
    /\ TextOf(calls["c1"]) = "Current time: 2025-07-25T14:30:25+00:00"

\* C15: the exchange runs apart from the event loop: while the exchange of one
\* invocation is pending, the loop can start another invocation and can resume
\* one whose exchange is done; and an invocation that queries has no reply
\* before its exchange has returned or failed.
C15_ExchangeOffTheLoop ==
    /\ \A i \in CallIds : \A j \in CallIds \ {i} :
           calls[i].pc = "awaiting" =>
               /\ calls[j].pc = "idle" => ENABLED Invoke(j, "get_current_time")
               /\ calls[j].pc = "ready" => ENABLED Resume(j)
    /\ \A i \in CallIds :
           LET c == calls[i]
           IN  /\ c.pc = "awaiting" => (c.content = <<>> /\ c.fut = <<>>)
               /\ (Returned(c) /\ c.netCalls > 0) => c.fut # <<>>
               /\ (Returned(c) /\ ~(c.tz_name # <<>> /\ c.tz_name[1] = "NotAZone")) =>
                      (c.fut # <<>> /\ c.netCalls = 1)

\* one exchange is pending while another invocation, started meanwhile, has
\* its exchange done and has returned
C15_Witness ==
    /\ calls["c1"].pc = "awaiting" /\ calls["c1"].tz_name = Some("UTC")
    /\ Returned(calls["c2"]) /\ calls["c2"].tz_name = Some("Asia/Tokyo")
    /\ calls["c2"].source = "remote"
    /\ env.TZ = Some("Asia/Tokyo")

\* C16: when every request that is started completes or times out, an
\* invocation of get_current_time that queries the server returns a result
\* after at most 3 requests, in fact after one; and get_ntp_time, once called,
\* returns or raises after at most 3 requests.
C16_EventuallyReturns ==
    /\ (calls["c1"].pc \in {"awaiting", "ready"}) ~>
           (Returned(calls["c1"]) /\ calls["c1"].netCalls = 1)
    /\ [](calls["c1"].netCalls <= 3)
    /\ (helper.pc \in {"attempt", "sleeping"}) ~>
           (helper.pc \in {"returned", "raised"})
    /\ [](helper.requests <= 3)

\* the only request of an invocation failed, and the invocation has returned
C16_Witness ==
    /\ Returned(calls["c1"]) /\ RemoteFailed(calls["c1"])
    /\ calls["c1"].netCalls = 1 /\ calls["c1"].source = "local"

\* C17: every returned text is one line beginning with Error:, or the three
\* lines Date:, Time: and Timezone:, and nothing else.
C17_ErrorLineOrThreeLines ==
    \A i \in CallIds :
        LET c == calls[i]
            lines == Split(TextOf(c))
        IN  Returned(c) =>
                \/ Len(lines) = 1 /\ IsErrorText(lines[1])
                \/ /\ Len(lines) = 3
                   /\ DateLineOk(lines[1])
                   /\ TimeLineOk(lines[2])
                   /\ TimezoneLineOk(lines[3])

\* C18: on remote success the Date and Time lines are the calendar date and the
\* clock time of the answered instant in the zone asked for, so the converted
\* date when the conversion crosses midnight; TZ=UTC and 2025-07-25T14:30:25Z
\* give Date:2025-07-25, Time:14:30:25, Timezone:UTC.
C18_ConvertedDateAndTimeLines ==
    \A i \in CallIds :
        LET c == calls[i]
        IN  (Returned(c) /\ c.source = "remote") =>
                LET t     == c.fut[1].tx_time[1]
                    local == t.sec + OffsetAskedFor(c.tz_name)
                    date  == CivilFromDays(local \div SecondsPerDay)
                    sod   == local % SecondsPerDay
                    lines == Split(TextOf(c))
                IN  /\ Len(lines) = 3
                    /\ lines[1] = "Date:" \o Pad(date.year, 4) \o "-"
                                  \o Pad(date.month, 2) \o "-" \o Pad(date.day, 2)
                    /\ lines[2] = "Time:" \o Pad(sod \div 3600, 2) \o ":"
                                  \o Pad((sod % 3600) \div 60, 2) \o ":" \o Pad(sod % 60, 2)
                    /\ (c.tz_name = Some("UTC") /\ t.sec = 1753401600 + 14 * 3600 + 30 * 60 + 25) =>
                           TextOf(c) = "Date:2025-07-25\nTime:14:30:25\nTimezone:UTC"

\* C19: invocations share no mutable state. Two overlapping invocations with
\* the same configuration, the same network outcome and the same clock read
\* have the same result, whatever ran before them; each invocation that queries
\* holds a client of its own, never that of the other; and a step of one
\* invocation changes nothing of the other, nor the environment.
C19_NoSharedState ==
    /\ [](\A i \in CallIds : \A j \in CallIds \ {i} :
             LET c == calls[i]
                 d == calls[j]
             IN  /\ (c.client # None /\ d.client # None) => c.client # d.client
                 /\ (c.fut # None) => c.client # None
                 /\ (/\ Returned(c) /\ Returned(d)
                     /\ c.tz_name = d.tz_name /\ c.ntp_server = d.ntp_server
                     /\ c.fut = d.fut /\ c.clock = d.clock) =>
                        c.content = d.content)
    /\ [][\A i \in CallIds :
             calls'[i] # calls[i] =>
                 /\ env' = env
                 /\ \A j \in CallIds \ {i} : calls'[j] = calls[j]]_vars

\* two overlapping invocations with the same configuration, each with a client
\* of its own: the request of one failed, that of the other was answered, and
\* each has the result of its own outcome
C19_Witness ==
    /\ Returned(calls["c1"]) /\ Returned(calls["c2"])
    /\ calls["c1"].tz_name = calls["c2"].tz_name
    /\ calls["c1"].client = Some("c1") /\ calls["c2"].client = Some("c2")
    /\ RemoteFailed(calls["c1"]) /\ calls["c1"].source = "local"
    /\ RemoteAnswered(calls["c2"]) /\ calls["c2"].source = "remote"

\* C20: whatever the environment and whatever was invoked before, the list of
\* tools is one tool, named get_current_time, whose input schema is an object
\* with no properties and no required arguments.
C20_OneToolNoArguments ==
    listed # None =>
        LET tools == listed[1]
        IN  /\ Len(tools) = 1
            /\ tools[1].name = "get_current_time"
            /\ tools[1].inputSchema.type = "object"
            /\ tools[1].inputSchema.properties = {}
            /\ tools[1].inputSchema.required = <<>>

\* the tools were listed, TZ names no zone, an invocation has ended in the zone
\* error and get_ntp_time has given up
C20_Witness ==
    /\ listed # None
    /\ env.TZ = Some("NotAZone") /\ env.NTP_SERVER = Some("time.google.com")
    /\ Returned(calls["c1"]) /\ ZoneUnknown(calls["c1"])
    /\ helper.pc = "raised"

\* C21: rendering is deterministic: two invocations that render the same
\* instant, from the same source, in the same zone return identical text,
\* whatever the environment has become and whichever rendered first.
C21_RenderingDeterministic ==
    \A i \in CallIds : \A j \in CallIds \ {i} :
        LET c == calls[i]
            d == calls[j]
        IN  (/\ Returned(c) /\ Returned(d)
             /\ c.source # "none" /\ c.source = d.source
             /\ InstantOf(c) = InstantOf(d)
             /\ c.tz = d.tz) =>
                TextOf(c) = TextOf(d)

\* the same instant was rendered twice in the zone of Tokyo, by two
\* invocations, and TZ has been changed since
C21_Witness ==
    /\ Returned(calls["c1"]) /\ Returned(calls["c2"])
    /\ calls["c1"].source = "remote" /\ calls["c2"].source = "remote"
    /\ calls["c1"].tz = Some("Asia/Tokyo") /\ calls["c2"].tz = Some("Asia/Tokyo")
    /\ InstantOf(calls["c1"]) = InstantOf(calls["c2"])
    /\ InstantOf(calls["c1"]).us = 900000
    /\ TextOf(calls["c1"]) = "Current time: 2025-07-26T08:59:59.900000+09:00"
    /\ env.TZ = Some("UTC")

\* C22: attempts are sequential. While attempt k of get_ntp_time is in flight
\* the k-1 earlier requests have all ended and k-1 waits have been made; attempt
\* k+1 starts only from the wait that followed the failure of attempt k; and an
\* invocation of get_current_time never has a request in flight after one has
\* ended.
C22_AttemptsSequential ==
    /\ [](/\ helper.pc = "attempt" =>
                /\ helper.requests = helper.attempt_number - 1
                /\ Len(helper.waits) = helper.attempt_number - 1
          /\ helper.pc \in {"sleeping", "returned", "raised"} =>
                helper.requests = helper.attempt_number
          /\ calls["c1"].pc = "awaiting" => calls["c1"].netCalls = 0)
    /\ [][(helper.attempt_number >= 1 /\ helper'.attempt_number > helper.attempt_number) =>
              /\ helper.pc = "sleeping" /\ helper'.pc = "attempt"
              /\ helper'.attempt_number = helper.attempt_number + 1
              /\ helper.response = None
              /\ helper.requests = helper.attempt_number
              /\ Len(helper.waits) = helper.attempt_number]_vars

\* the third attempt is in flight, after two failures and two waits
C22_Witness ==
    /\ helper.pc = "attempt" /\ helper.attempt_number = 3
    /\ helper.requests = 2 /\ helper.waits = <<1, 2>>

\* C23, as stated: the local clock is read, and a fallback result produced,
\* only in an invocation whose remote attempt has failed.
C23_FallbackOnlyAfterRequestFailed ==
    \A i \in CallIds :
        LET c == calls[i]
        IN  (c.clock # None \/ c.source = "local") => RemoteFailed(c)

\* C23, amended: the local clock is read only once the remote path has
\* failed, that is, once the request has failed or the conversion of its
\* answer has; an invocation whose answer is rendered never reads the local
\* clock, and no fallback result exists before the request has ended.
C23_FallbackOnlyAfterRemotePathFailed ==
    \A i \in CallIds :
        LET c == calls[i]
        IN  /\ (c.clock # None \/ c.source = "local" \/ c.clockReads > 0) =>
                   /\ c.fut # None /\ c.netCalls = 1
                   /\ RemoteFailed(c) \/ ConversionFailed(c)
            /\ c.source = "remote" =>
                   /\ RemoteAnswered(c) /\ ~ConversionFailed(c)
                   /\ c.clock = None /\ c.clockReads = 0
            /\ c.pc \in {"idle", "awaiting", "ready"} =>
                   (c.clock = None /\ c.content = <<>>)

\* the request was answered, the conversion of the answer failed, and the
\* invocation has returned the time of the local clock
C23_Witness ==
    /\ Returned(calls["c1"]) /\ RemoteAnswered(calls["c1"])
    /\ ConversionFailed(calls["c1"])
    /\ ClockRead(calls["c1"]) /\ calls["c1"].source = "local"
    /\ StartsWith(TextOf(calls["c1"]), "Current time (local fallback): ")

\* C24: get_ntp_time stops at the first attempt that succeeds and returns the
\* response of that attempt; when attempt 1 or 2 fails another attempt follows;
\* when attempt 3 fails get_ntp_time raises, and there is no fourth attempt.
C24_StopsAtFirstSuccessOrThirdFailure ==
    /\ [](/\ helper.attempt_number <= 3 /\ helper.requests <= 3
          /\ helper.pc = "returned" <=> helper.response # None
          /\ helper.pc = "returned" =>
                (helper.response[1].ok /\ helper.requests = helper.attempt_number)
          /\ helper.pc = "raised" =>
                (helper.requests = 3 /\ helper.attempt_number = 3)
          /\ helper.pc = "sleeping" => helper.attempt_number \in {1, 2})
    /\ [][/\ (helper.pc = "attempt" /\ helper' # helper) =>
                /\ helper'.requests = helper.requests + 1
                /\ helper'.pc = IF helper'.response # None THEN "returned"
                                ELSE IF helper.attempt_number = 3 THEN "raised"
                                ELSE "sleeping"
          /\ (helper.pc = "sleeping" /\ helper' # helper) =>
                /\ helper'.pc = "attempt"
                /\ helper'.attempt_number = helper.attempt_number + 1
          /\ (helper.pc \in {"returned", "raised"} /\ helper' # helper) =>
                (helper'.pc = "idle" /\ helper'.requests = 0)]_vars

\* the first two attempts failed and the third has been answered
C24_Witness ==
    /\ helper.pc = "returned" /\ helper.attempt_number = 3
    /\ helper.requests = 3 /\ helper.waits = <<1, 2>>
    /\ helper.response # None /\ helper.response[1].tx_time[1].us = 900000

\* the three ways an invocation of get_current_time ends
ResolvedRemote(c) ==
    Returned(c) /\ c.source = "remote" /\ StartsWith(TextOf(c), "Current time: ")

ResolvedFallback(c) ==
    /\ Returned(c) /\ c.source = "local"
    /\ StartsWith(TextOf(c), "Current time (local fallback): ")

Failed(c) == Returned(c) /\ c.source = "none" /\ IsErrorText(TextOf(c))

C26_CapturedAtEntryNotReread ==
    /\ [](\A i \in CallIds :
            LET c == calls[i]
            IN  /\ c.fut # None => c.queried = <<c.ntp_server>>
                /\ c.pc \in {"awaiting", "ready"} =>
                       c.tz = (IF Truthy(c.tz_name) THEN c.tz_name ELSE None)
                /\ (ResolvedRemote(c) \/ ResolvedFallback(c)) =>
                       EndsWith(TextOf(c),
                                IF Truthy(c.tz_name)
                                THEN (IF c.tz_name[1] = "Asia/Tokyo" THEN "+09:00" ELSE "+00:00")
                                ELSE "-04:00"))
    /\ [][\A i \in CallIds :
            /\ env' # env => calls'[i] = calls[i]
            /\ (calls[i].pc \in {"awaiting", "ready"} /\ calls'[i].pc # "idle") =>
                   /\ calls'[i].ntp_server = calls[i].ntp_server
                   /\ calls'[i].tz_name = calls[i].tz_name
                   /\ calls'[i].tz = calls[i].tz]_vars

\* NTP_SERVER and TZ were both changed while two invocations were under way:
\* the one, on the fallback path, has rendered in the zone it captured, the
\* other has its answer from the host it captured and is yet to render
C26_Witness ==
    /\ env = [NTP_SERVER |-> Some("time.google.com"), TZ |-> Some("Asia/Tokyo")]
    /\ ResolvedFallback(calls["c1"]) /\ calls["c1"].tz_name = Some("UTC")
    /\ calls["c1"].queried = <<"pool.ntp.org">>
    /\ EndsWith(TextOf(calls["c1"]), "+00:00")
    /\ calls["c2"].pc = "ready" /\ RemoteAnswered(calls["c2"])
    /\ calls["c2"].queried = <<"pool.ntp.org">> /\ calls["c2"].tz = None

\* C27: an invocation with a name other than get_current_time raises
\* ValueError("Unknown tool: <name>") and returns no content item; it has not
\* read NTP_SERVER or TZ, whatever they are set to, and it makes no request and
\* reads no clock.
C27_UnknownToolRaisesFirst ==
    /\ [](\A i \in CallIds :
            LET c == calls[i]
            IN  (c.pc # "idle" /\ c.name # "get_current_time") =>
                    /\ c.pc = "raised"
                    /\ c.exc = "Unknown tool: " \o c.name
                    /\ c.content = <<>>
                    /\ c.ntp_server = "" /\ c.tz_name = None /\ c.tz = None
                    /\ c.client = None /\ c.fut = None /\ c.clock = None
                    /\ c.netCalls = 0 /\ c.clockReads = 0 /\ c.queried = <<>>)
    /\ [][\A i \in CallIds :
            (calls[i].pc = "raised" /\ calls[i].name # "get_current_time"
               /\ calls'[i] # calls[i]) => calls'[i].pc = "idle"]_vars

\* get_time was invoked while NTP_SERVER was set and TZ named no zone: it
\* raised, with no zone error and no request
C27_Witness ==
    /\ calls["c1"].name = "get_time" /\ calls["c1"].pc = "raised"
    /\ calls["c1"].exc = "Unknown tool: get_time"
    /\ env = [NTP_SERVER |-> Some("time.google.com"), TZ |-> Some("NotAZone")]
    /\ calls["c2"].pc = "idle"

\* C28: when the request is answered and the conversion of the answer fails,
\* the invocation goes the way of a failed request: it reads the local clock
\* and returns the fallback text, with its tag, in the zone captured; its
\* result is that of an invocation whose request failed and whose clock read
\* came to the same, so an error only when the clock read failed too.
C28_ConversionFailureFallsBack ==
    /\ \A i \in CallIds :
           LET c == calls[i]
           IN  (c.pc \in {"returned", "raised"} /\ ConversionFailed(c)) =>
                   /\ Returned(c) /\ RemoteAnswered(c)
                   /\ c.clock # None /\ c.clockReads = 1 /\ c.netCalls = 1
                   /\ ClockRead(c) =>
                          /\ ResolvedFallback(c)
                          /\ TextOf(c) = FallbackText(AsTimezone(c.clock[1].now[1], c.tz))
                   /\ IsErrorText(TextOf(c)) => ClockFailed(c)
    /\ \A i \in CallIds : \A j \in CallIds \ {i} :
           LET c == calls[i]
               d == calls[j]
           IN  (/\ Returned(c) /\ ConversionFailed(c)
                /\ Returned(d) /\ RemoteFailed(d)
                /\ c.tz = d.tz /\ c.clock = d.clock) =>
                   c.content = d.content

\* the answer of one invocation could not be converted, the request of the
\* other failed: both returned the same fallback text
C28_Witness ==
    /\ Returned(calls["c1"]) /\ ConversionFailed(calls["c1"])
    /\ calls["c1"].fut[1].tx_time = Some(PreEpoch)
    /\ TextOf(calls["c1"]) = "Current time (local fallback): 2025-07-25T10:30:25-04:00"
    /\ Returned(calls["c2"]) /\ RemoteFailed(calls["c2"])
    /\ TextOf(calls["c2"]) = TextOf(calls["c1"])

\* C29: TZ set to the empty string is TZ not set: no zone is looked up and no
\* Unknown time zone text returned, the request is made as usual, and the
\* result, which is rendered in the zone of the process, is the result of an
\* invocation without TZ that had the same answer and the same clock read.
C29_EmptyTZIsUnset ==
    /\ \A i \in CallIds :
           LET c == calls[i]
           IN  (c.name = "get_current_time" /\ c.tz_name = Some("")) =>
                   /\ c.tz = None
                   /\ c.pc \in {"awaiting", "ready", "returned"}
                   /\ c.pc = "awaiting" <=> c.fut = None
                   /\ c.pc # "awaiting" => c.queried = <<c.ntp_server>>
                   /\ Returned(c) =>
                          /\ ~StartsWith(TextOf(c), "Error: Unknown time zone")
                          /\ ~IsErrorText(TextOf(c)) => EndsWith(TextOf(c), "-04:00")
    /\ \A i \in CallIds : \A j \in CallIds \ {i} :
           LET c == calls[i]
               d == calls[j]
           IN  (/\ Returned(c) /\ c.tz_name = Some("")
                /\ Returned(d) /\ d.tz_name = None
                /\ c.fut = d.fut /\ c.conv = d.conv /\ c.clock = d.clock) =>
                   c.content = d.content

\* an invocation with TZ empty and one without TZ had the same answer and
\* returned the same text, in the zone of the process
C29_Witness ==
    /\ Returned(calls["c1"]) /\ calls["c1"].tz_name = Some("")
    /\ Returned(calls["c2"]) /\ calls["c2"].tz_name = None
    /\ calls["c1"].fut = calls["c2"].fut
    /\ TextOf(calls["c1"]) = "Current time: 2025-07-25T19:59:59.900000-04:00"
    /\ TextOf(calls["c2"]) = TextOf(calls["c1"])
====
